---- MODULE Spec2Model ----
(***************************************************************************)
(* Model of src/operation/intersection.rs: the three implementations of    *)
(* the Intersection trait (Point x Point, LineString x Point and           *)
(* LineString x LineString).                                               *)
(*                                                                         *)
(* The coordinate type T: Float is a binary floating-point type with a     *)
(* significand of Precision bits and round-to-nearest, ties-to-even        *)
(* arithmetic.  Coordinates are the non-negative integers that T           *)
(* represents, so every value the code computes is an integer, rounded to  *)
(* Precision significant bits.  The exponent range is unbounded (no        *)
(* overflow or underflow); NaN and infinite coordinates are outside the    *)
(* model.                                                                  *)
(*                                                                         *)
(* Each call is a two-state machine: Init draws the operands (pc = "call") *)
(* and the single action runs the whole method and stores what it returns  *)
(* (pc = "return").                                                        *)
(***************************************************************************)
EXTENDS Integers, Sequences, FiniteSets

VARIABLES self, rhs, pc, result

vars == <<self, rhs, pc, result>>

(* ------------------------------ bounds --------------------------------- *)

\* Number of significand bits of the coordinate type T.
Precision == 2

\* Largest coordinate of the operands of the Point x Point call.
MaxCoord == 2

\* Largest x and largest y coordinate of the operands of the LineString x Point
\* call with a LineString of up to MaxLen vertices.
MaxLineX == 2

MaxLineY == 1

\* Largest x and largest y coordinate of the operands of the LineString x Point
\* call with a LineString of a single segment.
MaxSegmentX == 3

MaxSegmentY == 16

\* Largest number of vertices of the LineString of the LineString x Point call.
MaxLen == 3

\* Largest coordinate of the operands of the LineString x LineString call.
MaxCoordLL == 1

\* Largest total number of vertices of the two operands of the
\* LineString x LineString call.
MaxVerticesLL == 5

(* --------------------------- the Float type T -------------------------- *)

Pow2(n) == 2 ^ n

\* the spacing of the values of T around the magnitude a
RECURSIVE Ulp(_)
Ulp(a) == IF a < Pow2(Precision) THEN 1 ELSE 2 * Ulp(a \div 2)

\* a >= 0 rounded to the nearest value of T, ties to the even significand
RoundAbs(a) ==
    LET q == Ulp(a)
        m == a \div q
        r == a - m * q
    IN  IF 2 * r < q THEN m * q
        ELSE IF 2 * r > q THEN (m + 1) * q
        ELSE IF m % 2 = 0 THEN m * q
        ELSE (m + 1) * q

Round(n) == IF n < 0 THEN 0 - RoundAbs(0 - n) ELSE RoundAbs(n)

\* T's subtraction and multiplication
Sub(a, b) == Round(a - b)

Mul(a, b) == Round(a * b)

\* the values of T among 0..max
Coords(max) == {c \in 0..max : Round(c) = c}

(* --------------------------- geometry types ---------------------------- *)

\* Point::new(x, y)
Point(x, y) == [x |-> x, y |-> y]

PointsIn(maxx, maxy) == {Point(x, y) : x \in Coords(maxx), y \in Coords(maxy)}

Points(max) == PointsIn(max, max)

SeqsOfLen(S, n) == [1..n -> S]

\* LineString(vec![...]) with at least two and at most maxlen vertices
LineStringsIn(maxx, maxy, maxlen) ==
    UNION {SeqsOfLen(PointsIn(maxx, maxy), n) : n \in 2..maxlen}

LineStrings(max, maxlen) == LineStringsIn(max, max, maxlen)

\* Option<Geometry<T>>
None == [tag |-> "None"]

SomePoint(p) == [tag |-> "Point", point |-> p]

SomeLineString(l) == [tag |-> "LineString", line |-> l]

\* Point's PartialEq: both components equal
PointEq(a, b) == a.x = b.x /\ a.y = b.y

\* variant of VecEq: compares the zipped elements and forgets the lengths
MutVecEqPrefix(a, b) ==
    \A i \in 1..(IF Len(a) < Len(b) THEN Len(a) ELSE Len(b)) : PointEq(a[i], b[i])

\* Vec<Point>'s PartialEq: same length and equal elements at every position
VecEq(a, b) ==
    /\ Len(a) = Len(b)
    /\ \A i \in 1..Len(a) : PointEq(a[i], b[i])

(* --------------------------- Point x Point ----------------------------- *)

\* variant of PointPointIntersection: the two branches swapped
MutPointPointIntersectionSwapped(self_point, other_point) ==
    IF PointEq(self_point, other_point)
    THEN None
    ELSE SomePoint(self_point)

PointPointIntersection(self_point, other_point) ==
    IF PointEq(self_point, other_point)
    THEN SomePoint(self_point)
    ELSE None

(* ------------------------- LineString x Point -------------------------- *)

dx_point(start, point) == Sub(point.x, start.x)

dy_point(start, point) == Sub(point.y, start.y)

dx_line(start, end) == Sub(end.x, start.x)

dy_line(start, end) == Sub(end.y, start.y)

cross_product_magnitude(start, end, point) ==
    Sub(Mul(dx_point(start, point), dy_line(start, end)),
        Mul(dy_point(start, point), dx_line(start, end)))

\* the coordinate compared: y on a segment with dx_line = 0, x otherwise
coord(start, end, p) == IF dx_line(start, end) = 0 THEN p.y ELSE p.x

\* variant of lower_bound: takes the start of the segment for the lower end
MutLowerBoundUnordered(start, end) == coord(start, end, start)

lower_bound(start, end) ==
    IF coord(start, end, start) < coord(start, end, end)
    THEN coord(start, end, start)
    ELSE coord(start, end, end)

upper_bound(start, end) ==
    IF coord(start, end, start) < coord(start, end, end)
    THEN coord(start, end, end)
    ELSE coord(start, end, start)

\* variant of WithinBounds: the ends of the segment excluded
MutWithinBoundsStrict(start, end, point) ==
    /\ lower_bound(start, end) < coord(start, end, point)
    /\ coord(start, end, point) < upper_bound(start, end)

\* the inclusive containment test of the chosen coordinate
WithinBounds(start, end, point) ==
    /\ lower_bound(start, end) <= coord(start, end, point)
    /\ coord(start, end, point) <= upper_bound(start, end)

\* variant of SegmentMatches: the collinearity test left out
MutSegmentMatchesNoCross(start, end, point) == WithinBounds(start, end, point)

\* one iteration of the loop: TRUE when the body reaches the return
SegmentMatches(start, end, point) ==
    IF cross_product_magnitude(start, end, point) # 0
    THEN FALSE
    ELSE WithinBounds(start, end, point)

\* the loop over self.0.iter().zip(self.0[1..].iter()), from segment i on
RECURSIVE ScanSegments(_, _, _)
ScanSegments(line, point, i) ==
    IF i >= Len(line)
    THEN None
    ELSE IF SegmentMatches(line[i], line[i + 1], point)
         THEN SomePoint(point)
         ELSE ScanSegments(line, point, i + 1)

LineStringPointIntersection(line, point) == ScanSegments(line, point, 1)

(* ----------------------- LineString x LineString ----------------------- *)

\* variant of LineStringLineStringIntersection: the two branches swapped
MutLineStringLineStringIntersectionSwapped(line, other_line_string) ==
    IF VecEq(line, other_line_string)
    THEN None
    ELSE SomeLineString(line)

LineStringLineStringIntersection(line, other_line_string) ==
    IF VecEq(line, other_line_string)
    THEN SomeLineString(line)
    ELSE None

(* ---------------------------- the three calls -------------------------- *)

InitPointPoint ==
    /\ self \in Points(MaxCoord)
    /\ rhs \in Points(MaxCoord)
    /\ pc = "call"
    /\ result = None

CallPointPoint ==
    /\ pc = "call"
    /\ result' = PointPointIntersection(self, rhs)
    /\ pc' = "return"
    /\ UNCHANGED <<self, rhs>>

SpecPointPoint == InitPointPoint /\ [][CallPointPoint]_vars

InitLineStringPoint ==
    /\ \/ /\ self \in LineStringsIn(MaxLineX, MaxLineY, MaxLen)
          /\ rhs \in PointsIn(MaxLineX, MaxLineY)
       \/ /\ self \in SeqsOfLen(PointsIn(MaxSegmentX, MaxSegmentY), 2)
          /\ rhs \in PointsIn(MaxSegmentX, MaxSegmentY)
    /\ pc = "call"
    /\ result = None

CallLineStringPoint ==
    /\ pc = "call"
    /\ result' = LineStringPointIntersection(self, rhs)
    /\ pc' = "return"
    /\ UNCHANGED <<self, rhs>>

SpecLineStringPoint == InitLineStringPoint /\ [][CallLineStringPoint]_vars

InitLineStringLineString ==
    /\ \E n \in 2..(MaxVerticesLL - 2) :
          /\ self \in SeqsOfLen(Points(MaxCoordLL), n)
          /\ rhs \in LineStrings(MaxCoordLL, MaxVerticesLL - n)
    /\ pc = "call"
    /\ result = None

CallLineStringLineString ==
    /\ pc = "call"
    /\ result' = LineStringLineStringIntersection(self, rhs)
    /\ pc' = "return"
    /\ UNCHANGED <<self, rhs>>

SpecLineStringLineString ==
    InitLineStringLineString /\ [][CallLineStringLineString]_vars

(* ------------------------ geometry used by the properties -------------- *)

IsSome(r) == r.tag # "None"

Reverse(s) == [i \in 1..Len(s) |-> s[Len(s) + 1 - i]]

Min(a, b) == IF a < b THEN a ELSE b

Max(a, b) == IF a < b THEN b ELSE a

\* (p - a) x (b - a)
Cross(a, b, p) == (p.x - a.x) * (b.y - a.y) - (p.y - a.y) * (b.x - a.x)

\* (p - a) . (b - a)
Dot(a, b, p) == (p.x - a.x) * (b.x - a.x) + (p.y - a.y) * (b.y - a.y)

\* p is inside the closed bounding box of a and b
InBox(a, b, p) ==
    /\ Min(a.x, b.x) <= p.x /\ p.x <= Max(a.x, b.x)
    /\ Min(a.y, b.y) <= p.y /\ p.y <= Max(a.y, b.y)

\* p is a point of the closed segment from a to b
OnSegment(a, b, p) == Cross(a, b, p) = 0 /\ InBox(a, b, p)

\* p is on the segment from a to b and is neither a nor b
StrictlyBetween(a, b, p) ==
    /\ Cross(a, b, p) = 0
    /\ 0 < Dot(a, b, p)
    /\ Dot(a, b, p) < Dot(a, b, b)

Segments(l) == 1..(Len(l) - 1)

\* no difference and no product of the cross product of p with the segment
\* from a to b is rounded by T
ExactCross(a, b, p) ==
    /\ Round(p.x - a.x) = p.x - a.x
    /\ Round(p.y - a.y) = p.y - a.y
    /\ Round(b.x - a.x) = b.x - a.x
    /\ Round(b.y - a.y) = b.y - a.y
    /\ Round((p.x - a.x) * (b.y - a.y)) = (p.x - a.x) * (b.y - a.y)
    /\ Round((p.y - a.y) * (b.x - a.x)) = (p.y - a.y) * (b.x - a.x)

\* p is an end of the segment from a to b or lies strictly between them
OnClosedSegment(a, b, p) == p = a \/ p = b \/ StrictlyBetween(a, b, p)

IsVertex(l, p) == \E i \in 1..Len(l) : l[i].x = p.x /\ l[i].y = p.y

\* the closed segments a1-a2 and b1-b2 have a common point
SegmentsSharePoint(a1, a2, b1, b2) ==
    \/ /\ Cross(b1, b2, a1) * Cross(b1, b2, a2) < 0
       /\ Cross(a1, a2, b1) * Cross(a1, a2, b2) < 0
    \/ OnSegment(b1, b2, a1)
    \/ OnSegment(b1, b2, a2)
    \/ OnSegment(a1, a2, b1)
    \/ OnSegment(a1, a2, b2)

\* the segments have a whole sub-segment in common: two distinct common
\* points, or a segment of length zero that lies on the other segment
SegmentsOverlap(a1, a2, b1, b2) ==
    \E u \in {a1, a2, b1, b2} : \E v \in {a1, a2, b1, b2} :
        /\ u # v \/ a1 = a2 \/ b1 = b2
        /\ OnSegment(a1, a2, u) /\ OnSegment(b1, b2, u)
        /\ OnSegment(a1, a2, v) /\ OnSegment(b1, b2, v)

SharePoint(a, b) ==
    \E i \in Segments(a) : \E j \in Segments(b) :
        SegmentsSharePoint(a[i], a[i + 1], b[j], b[j + 1])

Overlap(a, b) ==
    \E i \in Segments(a) : \E j \in Segments(b) :
        SegmentsOverlap(a[i], a[i + 1], b[j], b[j + 1])

(* ------------------------------ properties ----------------------------- *)

\* C1: Point x Point returns Some(Point(self)) exactly when both coordinates
\* of the two points are equal, and None in every other case.
C1_PointPointExact ==
    pc = "return" =>
        IF self.x = rhs.x /\ self.y = rhs.y
        THEN result = SomePoint(self)
        ELSE result = None

C1_Witness == pc = "return" /\ self.x = rhs.x /\ self.y = rhs.y /\ result.tag = "Point"

C4_Soundness ==
    (/\ pc = "return"
     /\ \A i \in Segments(self) : ~OnSegment(self[i], self[i + 1], rhs))
        => result = None

C6_Idempotence ==
    (pc = "return" /\ self = rhs) =>
        /\ result = SomeLineString(self)
        /\ LineStringLineStringIntersection(result.line, rhs) = result

C6_Witness == pc = "return" /\ self = rhs /\ result.tag = "LineString"

\* C7: LineString x LineString is Some for (A, B) exactly when it is Some
\* for (B, A), and reversing the vertices of A or of B does not change that.
C7_Symmetry ==
    pc = "return" =>
        /\ IsSome(result) <=> IsSome(LineStringLineStringIntersection(rhs, self))
        /\ IsSome(result)
              <=> IsSome(LineStringLineStringIntersection(Reverse(self), rhs))
        /\ IsSome(result)
              <=> IsSome(LineStringLineStringIntersection(self, Reverse(rhs)))

\* C8: LineStrings that share a point give Some: a LineString when two
\* segments overlap in a sub-segment, else a Point; None only when the two
\* share no point.
C8_OverlapsAndCrossings ==
    pc = "return" =>
        /\ SharePoint(self, rhs) =>
              result.tag = (IF Overlap(self, rhs) THEN "LineString" ELSE "Point")
        /\ result = None => ~SharePoint(self, rhs)

C10_SingleAxisSufficient ==
    pc = "return" =>
        \A i \in Segments(self) :
            cross_product_magnitude(self[i], self[i + 1], rhs) = 0 =>
                (WithinBounds(self[i], self[i + 1], rhs)
                    <=> InBox(self[i], self[i + 1], rhs))

====
